---------------------------- MODULE Spec2Model ----------------------------
(***************************************************************************)
(* Model of rba_tools' OHLCV retrieval engine                              *)
(* (src/retriver/get_crypto_data.py): the retrievers, the sqlite store,    *)
(* the reconciler `main` and the older reconciler `get_DataFrame` with its *)
(* paginated fetch `retrieve_data_from_exchange`.                          *)
(*                                                                         *)
(* Datetimes are counted in seconds and exchange timestamps in             *)
(* milliseconds, both scaled down: a second is MsPerSecond ms, half a day  *)
(* is HalfDay seconds and a day is two half days.  Calendar dates are day  *)
(* numbers 1..MaxDay; a date starts at the datetime date * Day.  Two       *)
(* timeframes are modelled, "1d" and the sub-daily "12h".                  *)
(*                                                                         *)
(* The dynamically typed parts of `main`: the truth test `not data` on a   *)
(* series either raises (a pandas frame has no truth value) or is the      *)
(* emptiness test (a frame type whose truth is its length), and            *)
(* `database.store_dataframe(online_data)` either raises (the store        *)
(* requires a timeframe argument, and an existing table refuses the        *)
(* insert) or inserts the frame.  Both outcomes are kept as choices.       *)
(***************************************************************************)
EXTENDS Integers, Sequences, FiniteSets, TLC

(* ------------------------------ bounds -------------------------------- *)
MaxDay == 3
PageSize == 2
MaxCalls == 2
MsPerSecond == 2
HalfDay == 2

Second == 1
Day == 2 * HalfDay

Symbol == "ETH/BTC"
OtherSymbol == "BCH/BTC"
Timeframes == {"1d", "12h"}
Dates == 1..MaxDay
NoneVal == <<>>

VARIABLES
  timeframe,      \* main's timeframe argument
  from_date,      \* main's from_date (a day number)
  to_date,        \* main's to_date (a day number)
  storedKind,     \* stored_retriever: "none", "csv" (CSVDataRetriver) or "db" (DatabaseRetriver)
  hasOnline,      \* online_retriever is given
  fileRows,       \* the rows of the CSV file, in file order
  tableExists,    \* the timeframe's table exists in the sqlite file
  dbRows,         \* the rows of the timeframe's table, in insertion order
  remote,         \* the datetimes the exchange has candles for
  pc,             \* main's position, per invocation
  all_data,       \* main's all_data
  online_data,    \* main's online_data
  pull_date,      \* prior_pull_end_date / post_pull_from_date
  fetches,        \* the online_retriever.fetch_ohlcv calls made so far
  stored,         \* what the stored retriever returned
  loop,           \* the paginated fetch that runs: "ccxt" (get_all_ccxt_data) or "rde" (retrieve_data_from_exchange)
  lpc,            \* its position
  window,         \* its <<from_date_ms, to_date_ms>> arguments
  max_calls,      \* retrieve_data_from_exchange's max_calls
  nowMs,          \* convert_datetime_to_UTC_Ms(): the current time
  call_count,     \* call_count
  cur_since,      \* the since of the next exchange call (from_date_ms / new_from_date)
  cur_data,       \* the page the last exchange call returned (data / df)
  acc_data,       \* the pages accumulated so far (return_data / retdf)
  events,         \* the sleeps and exchange calls so far, in order
  result,         \* what the fetch returned
  symbol_list,    \* get_DataFrame's symbol_list
  ohlcvTable,     \* the rows of table OHLCV_DATA, in insertion order
  gpc,            \* get_DataFrame's position
  saved_df,       \* df: what get_saved_data returned
  sym_idx,        \* the position of the for loop in symbol_list
  return_df,      \* return_df
  gfetches,       \* the retrieve_data_from_exchange calls made so far
  series,         \* the frame handed to store_dataframe
  argKind,        \* how a retriever is given from_date and to_date: as "date" or as midnight "datetime"
  raw,            \* the candles get_all_ccxt_data hands to format_ccxt_returned_data
  rlog            \* the store and retriever calls made so far, with their outcomes

envVars == <<timeframe, from_date, to_date, storedKind, hasOnline, fileRows, remote>>
dbVars == <<tableExists, dbRows>>
mainVars == <<pc, all_data, online_data, pull_date, fetches, stored>>
pageVars == <<loop, lpc, window, max_calls, nowMs, call_count, cur_since, cur_data, acc_data, events, result>>
gdfVars == <<symbol_list, ohlcvTable, gpc, saved_df, sym_idx, return_df, gfetches>>
retVars == <<series, argKind, raw, rlog>>
vars == <<envVars, dbVars, mainVars, pageVars, gdfVars, retVars>>

\* no store or retriever is called on its own
RetIdle == series = <<>> /\ argKind = "date" /\ raw = <<>> /\ rlog = <<>>

(* ------------------------------ helpers ------------------------------- *)
\* the duration of one bar of a timeframe, in seconds
TimeframeSeconds(tf) == IF tf = "1d" THEN Day ELSE HalfDay

convert_timeframe_to_ms(tf) == TimeframeSeconds(tf) * MsPerSecond

\* the datetimes of the modelled horizon at which a bar of the timeframe starts
Slots(tf) == {t \in Day..(MaxDay * Day + Day - 1) : t % TimeframeSeconds(tf) = 0}

Row(t, origin) == [ts |-> t, sym |-> Symbol, fin |-> "nan", src |-> origin]

Index(df) == {df[i].ts : i \in 1..Len(df)}

SetMin(S) == CHOOSE x \in S : \A y \in S : x <= y
SetMax(S) == CHOOSE x \in S : \A y \in S : x >= y

RECURSIVE AscSeq(_)
AscSeq(S) == IF S = {} THEN <<>> ELSE <<SetMin(S)>> \o AscSeq(S \ {SetMin(S)})

Rows(S, origin) == [i \in 1..Cardinality(S) |-> Row(AscSeq(S)[i], origin)]

get_empty_ohlcv_df == <<>>

\* df.sort_index(): the rows in ascending timestamp order, every row kept
RECURSIVE sort_index(_)
sort_index(df) ==
  IF df = <<>> THEN <<>>
  ELSE LET m == SetMin(Index(df))
           IsM(r) == r.ts = m
           NotM(r) == r.ts # m
       IN SelectSeq(df, IsM) \o sort_index(SelectSeq(df, NotM))

\* datetime.combine(d, datetime.min.time()): the start of d's day
StartOfDay(t) == (t \div Day) * Day

\* a calendar date as the datetime its day starts at
DateStart(d) == d * Day

get_from_and_to_datetimes(from, to) ==
  <<StartOfDay(from), StartOfDay(to) + Day - Second>>

convert_datetime_to_UTC_Ms(dt) == dt * MsPerSecond

\* pd.to_datetime(ms, unit='ms')
to_datetime_ms(ms) == ms \div MsPerSecond

(* --------------------------- CCXTDataRetriver -------------------------- *)
\* exchange.fetch_ohlcv(symbol, timeframe, since): the first PageSize candles at or after since
ExchangePage(rem, since) ==
  LET avail == AscSeq({convert_datetime_to_UTC_Ms(t) : t \in {u \in rem : convert_datetime_to_UTC_Ms(u) >= since}})
  IN SubSeq(avail, 1, IF Len(avail) < PageSize THEN Len(avail) ELSE PageSize)

\* a faulty variant of to_date_is_found_or_passed: only the first row is tested
to_date_is_found_or_passed_first_row(data, to_date_ms) ==
  to_date_ms = data[1] \/ to_date_ms < data[1]

to_date_is_found_or_passed(data, to_date_ms) ==
  \E i \in 1..Len(data) : to_date_ms = data[i] \/ to_date_ms < data[i]

RECURSIVE CcxtLoop(_, _, _, _)
CcxtLoop(rem, return_data, from_date_ms, to_date_ms) ==
  LET data == ExchangePage(rem, from_date_ms)
  IN IF data = <<>> THEN return_data
     ELSE IF to_date_is_found_or_passed(data, to_date_ms) THEN return_data \o data
     ELSE CcxtLoop(rem, return_data \o data, data[Len(data)] + 1, to_date_ms)

get_all_ccxt_data(rem, from_date_ms, to_date_ms) == CcxtLoop(rem, <<>>, from_date_ms, to_date_ms)

format_ccxt_returned_data(data, to_dt) ==
  LET df == [i \in 1..Len(data) |-> Row(to_datetime_ms(data[i]), "online")]
      UpTo(r) == r.ts <= to_dt
  IN IF data = <<>> THEN get_empty_ohlcv_df ELSE SelectSeq(df, UpTo)

CCXT_fetch_ohlcv(rem, from, to) ==
  LET dts == get_from_and_to_datetimes(from, to)
      data == get_all_ccxt_data(rem, convert_datetime_to_UTC_Ms(dts[1]), convert_datetime_to_UTC_Ms(dts[2]))
  IN format_ccxt_returned_data(data, dts[2])

(* ---------------------- retrieve_data_from_exchange -------------------- *)
RowMs(ms, symbol) == [ts |-> ms, sym |-> symbol, fin |-> "nan", src |-> "online"]

\* fetch_ohlcv_dataframe_from_exchange: one page as a frame indexed by ms timestamps
fetch_ohlcv_dataframe_from_exchange(rem, symbol, start_time_ms) ==
  LET page == ExchangePage(rem, start_time_ms)
  IN [i \in 1..Len(page) |-> RowMs(page[i], symbol)]

\* the while condition of line 463
RdeContinue(df, count, retdf, end_date_ms, maxc) ==
  /\ Len(df) = PageSize
  /\ count < maxc
  /\ SetMax(Index(retdf)) < end_date_ms

\* the condition of line 470
RdeCapHit(df, count, retdf, end_date_ms, maxc) ==
  /\ Len(df) = PageSize
  /\ count >= maxc
  /\ SetMax(Index(retdf)) < end_date_ms

MarkFinal(df, t) == [i \in 1..Len(df) |-> IF df[i].ts = t THEN [df[i] EXCEPT !.fin = "1"] ELSE df[i]]

populate_is_final_column(df, from_date_ms, end_date_ms, tf, now) ==
  LET timeframe_ms == convert_timeframe_to_ms(tf)
      df1 == IF from_date_ms < SetMin(Index(df)) - timeframe_ms
             THEN MarkFinal(df, SetMin(Index(df))) ELSE df
      two_timeframes_ms == 2 * timeframe_ms
      end_date_is_older_than_two_timeframes == end_date_ms < now - two_timeframes_ms
  IN IF end_date_ms > SetMax(Index(df1)) + timeframe_ms /\ end_date_is_older_than_two_timeframes
     THEN MarkFinal(df1, SetMax(Index(df1))) ELSE df1

\* retdf.loc[from_date_ms:end_date_ms, :]
LocSlice(df, first, last) ==
  LET In(r) == first <= r.ts /\ r.ts <= last
  IN SelectSeq(df, In)

\* lines 470-474: what retrieve_data_from_exchange returns once its loop has ended
RdeReturn(df, count, retdf, from_date_ms, end_date_ms, tf, maxc, now) ==
  IF RdeCapHit(df, count, retdf, end_date_ms, maxc) THEN <<>>
  ELSE LocSlice(populate_is_final_column(retdf, from_date_ms, end_date_ms, tf, now),
                from_date_ms, end_date_ms)

RECURSIVE RdeLoop(_, _, _, _, _, _, _, _, _, _)
RdeLoop(rem, symbol, df, count, retdf, from_date_ms, end_date_ms, tf, maxc, now) ==
  IF RdeContinue(df, count, retdf, end_date_ms, maxc)
  THEN LET new_from_date == df[Len(df)].ts + 1
           next == fetch_ohlcv_dataframe_from_exchange(rem, symbol, new_from_date)
       IN RdeLoop(rem, symbol, next, count + 1, retdf \o next, from_date_ms, end_date_ms, tf, maxc, now)
  ELSE RdeReturn(df, count, retdf, from_date_ms, end_date_ms, tf, maxc, now)

retrieve_data_from_exchange(rem, symbol, from_date_ms, end_date_ms, tf, maxc, now) ==
  LET df == fetch_ohlcv_dataframe_from_exchange(rem, symbol, from_date_ms)
  IN IF df = <<>> THEN <<>>
     ELSE RdeLoop(rem, symbol, df, 1, df, from_date_ms, end_date_ms, tf, maxc, now)

(* --------------------------- CSVDataRetriver --------------------------- *)
\* a faulty variant of format_csv_data: the rows of every symbol are kept
format_csv_data_any_symbol(data, symbol, from_dt, to_dt) ==
  LET Keep(r) == from_dt <= r.ts /\ r.ts <= to_dt
  IN SelectSeq(data, Keep)

format_csv_data(data, symbol, from_dt, to_dt) ==
  LET Keep(r) == r.sym = symbol /\ from_dt <= r.ts /\ r.ts <= to_dt
  IN SelectSeq(data, Keep)

CSV_fetch_ohlcv(data, symbol, from, to) ==
  LET dts == get_from_and_to_datetimes(from, to)
  IN format_csv_data(data, symbol, dts[1], dts[2])

(* --------------------------- DatabaseRetriver -------------------------- *)
\* text comparison a <= b of two strings given as sequences of numbers
RECURSIVE TextLeq(_, _)
TextLeq(a, b) ==
  IF a = <<>> THEN TRUE
  ELSE IF b = <<>> THEN FALSE
  ELSE IF a[1] # b[1] THEN a[1] < b[1]
  ELSE TextLeq(Tail(a), Tail(b))

\* str(date) "YYYY-MM-DD" and the stored text "YYYY-MM-DD HH:MM:SS" of a Timestamp
DateText(d) == <<d \div Day>>
TimestampText(t) == <<t \div Day, t % Day>>

\* the rows get_query selects: Timestamp >= "from_date" and Timestamp <= "to_date"
QueryRows(rows, symbol, from, to) ==
  LET Sel(r) == /\ r.sym = symbol
                /\ TextLeq(DateText(from), TimestampText(r.ts))
                /\ TextLeq(TimestampText(r.ts), DateText(to))
  IN SelectSeq(rows, Sel)

format_database_data(data) ==
  IF data = <<>> THEN get_empty_ohlcv_df
  ELSE [i \in 1..Len(data) |-> [data[i] EXCEPT !.src = "stored"]]

DB_fetch_ohlcv(rows, symbol, from, to) == format_database_data(QueryRows(rows, symbol, from, to))

(* ------------------------------ main ---------------------------------- *)
\* a faulty variant of needs_former_data: the membership test inverted
needs_former_data_inverted(data, from) ==
  IF data = <<>> THEN <<from>>
  ELSE IF from \in Index(data) THEN <<SetMin(Index(data)) - Day>>
  ELSE NoneVal

needs_former_data(data, from) ==
  IF data = <<>> THEN <<from>>
  ELSE IF from \notin Index(data) THEN <<SetMin(Index(data)) - Day>>
  ELSE NoneVal

needs_later_data(data, to) ==
  IF data = <<>> THEN <<to>>
  ELSE IF to \notin Index(data) THEN <<SetMin(Index(data)) + Day>>
  ELSE NoneVal

\* SQLite3OHLCVDatabase.store_dataframe: df.to_sql(table_name, connection), which
\* raises when the table exists and otherwise creates it and inserts df's rows
store_dataframe_raises(exists) == exists
store_dataframe_rows(rows, df) == rows \o df

Procs == DOMAIN pc

Goto(p, label) == pc' = [pc EXCEPT ![p] = label]

\* lines 214-220: the stored retriever's fetch, and the return when no online retriever is given
QueryStored(p) ==
  /\ pc[p] = "start"
  /\ IF storedKind = "db" /\ ~tableExists
     THEN /\ Goto(p, "raised_query")
          /\ UNCHANGED <<all_data, stored>>
     ELSE LET got == CASE storedKind = "none" -> get_empty_ohlcv_df
                       [] storedKind = "csv" ->
                            CSV_fetch_ohlcv(fileRows, Symbol, DateStart(from_date), DateStart(to_date))
                       [] storedKind = "db" ->
                            DB_fetch_ohlcv(dbRows, Symbol, DateStart(from_date), DateStart(to_date))
          IN /\ all_data' = [all_data EXCEPT ![p] = got]
             /\ stored' = [stored EXCEPT ![p] = got]
             /\ Goto(p, IF hasOnline THEN "head_check" ELSE "done")
  /\ UNCHANGED <<online_data, pull_date, fetches, envVars, dbVars, pageVars, gdfVars, retVars>>

\* lines 219 and 184: the query returns and the truth test of its result raises
QueryStoredRaises(p) ==
  /\ pc[p] = "start" /\ storedKind = "db" /\ tableExists
  /\ Goto(p, "raised_truth")
  /\ UNCHANGED <<all_data, online_data, pull_date, fetches, stored, envVars, dbVars, pageVars, gdfVars, retVars>>

\* lines 223 and 238: the truth test of the series raises
HeadCheckRaises(p) ==
  /\ pc[p] = "head_check"
  /\ Goto(p, "raised_truth")
  /\ UNCHANGED <<all_data, online_data, pull_date, fetches, stored, envVars, dbVars, pageVars, gdfVars, retVars>>

\* lines 223-224
HeadCheck(p) ==
  /\ pc[p] = "head_check"
  /\ LET prior_pull_end_date == needs_former_data(all_data[p], DateStart(from_date))
     IN /\ pull_date' = [pull_date EXCEPT ![p] = prior_pull_end_date]
        /\ Goto(p, IF prior_pull_end_date # NoneVal THEN "head_fetch" ELSE "tail_check")
  /\ UNCHANGED <<all_data, online_data, fetches, stored, envVars, dbVars, pageVars, gdfVars, retVars>>

\* an online_retriever.fetch_ohlcv(symbol, timeframe, from, to) call that returns
OnlineFetch(p, gap, from, to, next) ==
  /\ fetches' = [fetches EXCEPT ![p] = Append(@, [gap |-> gap, range |-> get_from_and_to_datetimes(from, to)])]
  /\ online_data' = [online_data EXCEPT ![p] = CCXT_fetch_ohlcv(remote, from, to)]
  /\ Goto(p, next)
  /\ UNCHANGED <<all_data, pull_date, stored, envVars, dbVars, pageVars, gdfVars, retVars>>

\* the same call when the exchange client raises: main has no handler
OnlineFetchRaises(p, gap, from, to) ==
  /\ fetches' = [fetches EXCEPT ![p] = Append(@, [gap |-> gap, range |-> get_from_and_to_datetimes(from, to)])]
  /\ Goto(p, "raised_fetch")
  /\ UNCHANGED <<all_data, online_data, pull_date, stored, envVars, dbVars, pageVars, gdfVars, retVars>>

\* database.store_dataframe(online_data): the call itself raises (no timeframe
\* argument), or the insert raises because the table exists, or the frame is
\* inserted into a new table
StoreOnline(p, next) ==
  /\ \/ /\ Goto(p, "raised_call")
        /\ UNCHANGED dbVars
     \/ /\ store_dataframe_raises(tableExists)
        /\ Goto(p, "raised_store")
        /\ UNCHANGED dbVars
     \/ /\ ~store_dataframe_raises(tableExists)
        /\ tableExists' = TRUE
        /\ dbRows' = store_dataframe_rows(dbRows, online_data[p])
        /\ Goto(p, next)
  /\ UNCHANGED <<all_data, online_data, pull_date, fetches, stored, envVars, pageVars, gdfVars, retVars>>

\* all_data = all_data.append(online_data).sort_index()
MergeOnline(p, next) ==
  /\ all_data' = [all_data EXCEPT ![p] = sort_index(all_data[p] \o online_data[p])]
  /\ Goto(p, next)
  /\ UNCHANGED <<online_data, pull_date, fetches, stored, envVars, dbVars, pageVars, gdfVars, retVars>>

\* a faulty variant of HeadFetch: the fetched frame goes to the merge without the store call
HeadFetch_unsaved(p) ==
  /\ pc[p] = "head_fetch"
  /\ OnlineFetch(p, "head", DateStart(from_date), pull_date[p][1], "head_merge")

\* line 225
HeadFetch(p) ==
  /\ pc[p] = "head_fetch"
  /\ OnlineFetch(p, "head", DateStart(from_date), pull_date[p][1], "head_store")

HeadFetchRaises(p) ==
  /\ pc[p] = "head_fetch"
  /\ OnlineFetchRaises(p, "head", DateStart(from_date), pull_date[p][1])

\* line 226
HeadStore(p) == pc[p] = "head_store" /\ StoreOnline(p, "head_merge")

\* line 227
HeadMerge(p) == pc[p] = "head_merge" /\ MergeOnline(p, "tail_check")

\* lines 229 and 246: the truth test of the series raises
TailCheckRaises(p) ==
  /\ pc[p] = "tail_check"
  /\ Goto(p, "raised_truth")
  /\ UNCHANGED <<all_data, online_data, pull_date, fetches, stored, envVars, dbVars, pageVars, gdfVars, retVars>>

\* lines 229-230
TailCheck(p) ==
  /\ pc[p] = "tail_check"
  /\ LET post_pull_from_date == needs_later_data(all_data[p], DateStart(to_date))
     IN /\ pull_date' = [pull_date EXCEPT ![p] = post_pull_from_date]
        /\ Goto(p, IF post_pull_from_date # NoneVal THEN "tail_fetch" ELSE "done")
  /\ UNCHANGED <<all_data, online_data, fetches, stored, envVars, dbVars, pageVars, gdfVars, retVars>>

\* line 231
TailFetch(p) ==
  /\ pc[p] = "tail_fetch"
  /\ OnlineFetch(p, "tail", pull_date[p][1], DateStart(to_date), "tail_store")

TailFetchRaises(p) ==
  /\ pc[p] = "tail_fetch"
  /\ OnlineFetchRaises(p, "tail", pull_date[p][1], DateStart(to_date))

\* line 232
TailStore(p) == pc[p] = "tail_store" /\ StoreOnline(p, "tail_merge")

\* line 233, and the return of line 235
TailMerge(p) == pc[p] = "tail_merge" /\ MergeOnline(p, "done")

\* the candles an exchange can hold: one unbroken run of bars, or none
RemoteHistories(tf) ==
  {{t \in Slots(tf) : lo <= t /\ t <= hi} : lo \in Slots(tf), hi \in Slots(tf)} \cup {{}}

\* stored rows whose first or last row an earlier run marked final: the Is_Final_Row
\* column holds 1 there and is empty elsewhere
MarkEdges(df, m) ==
  [i \in 1..Len(df) |->
     [df[i] EXCEPT !.fin = IF (i = 1 /\ m[1]) \/ (i = Len(df) /\ m[2]) THEN "1" ELSE @]]

MainStart(ps, marks) ==
  /\ timeframe \in Timeframes
  /\ from_date \in Dates
  /\ to_date \in {d \in Dates : from_date <= d}
  /\ storedKind \in {"none", "csv", "db"}
  /\ hasOnline \in BOOLEAN
  /\ remote \in IF hasOnline THEN RemoteHistories(timeframe) ELSE {{}}
  /\ \E cache \in SUBSET Slots(timeframe), m \in marks :
       /\ storedKind = "none" => cache = {}
       /\ fileRows = IF storedKind = "csv" THEN MarkEdges(Rows(cache, "stored"), m) ELSE <<>>
       /\ dbRows = IF storedKind = "db" THEN MarkEdges(Rows(cache, "stored"), m) ELSE <<>>
       /\ tableExists \in IF storedKind = "db" /\ cache # {} THEN {TRUE} ELSE BOOLEAN
  /\ pc = [p \in ps |-> "start"]
  /\ all_data = [p \in ps |-> get_empty_ohlcv_df]
  /\ online_data = [p \in ps |-> get_empty_ohlcv_df]
  /\ pull_date = [p \in ps |-> NoneVal]
  /\ fetches = [p \in ps |-> <<>>]
  /\ stored = [p \in ps |-> <<>>]

\* the stored rows carry no mark
MainInit(ps) == MainStart(ps, {<<FALSE, FALSE>>})

\* no paginated fetch is followed step by step
PageIdle ==
  /\ loop = "none" /\ lpc = "idle" /\ window = <<0, 0>> /\ max_calls = 0 /\ nowMs = 0
  /\ call_count = 0 /\ cur_since = 0 /\ cur_data = <<>> /\ acc_data = <<>>
  /\ events = <<>> /\ result = <<>>

\* get_DataFrame does not run
GdfIdle ==
  /\ symbol_list = <<>> /\ ohlcvTable = <<>> /\ gpc = "idle" /\ saved_df = <<>>
  /\ sym_idx = 0 /\ return_df = <<>> /\ gfetches = <<>>

Init == MainInit({1}) /\ PageIdle /\ GdfIdle /\ RetIdle

(* ---------------- the paginated fetches, step by step ------------------ *)
Event(kind, at) == [ev |-> kind, since |-> at]

NCalls == Cardinality({i \in 1..Len(events) : events[i].ev = "call"})

pageState == <<window, max_calls, nowMs, loop>>

\* get_all_ccxt_data line 144: data = self.exchange.fetch_ohlcv(symbol, timeframe, since=from_date_ms)
CcxtCall ==
  /\ loop = "ccxt" /\ lpc = "call"
  /\ cur_data' = ExchangePage(remote, cur_since)
  /\ events' = Append(events, Event("call", cur_since))
  /\ lpc' = "sleep"
  /\ UNCHANGED <<pageState, call_count, cur_since, acc_data, result, envVars, dbVars, mainVars, gdfVars, retVars>>

\* line 145: sleep(self.exchange.rateLimit / 1000)
CcxtSleep ==
  /\ loop = "ccxt" /\ lpc = "sleep"
  /\ events' = Append(events, Event("sleep", cur_since))
  /\ lpc' = "after"
  /\ UNCHANGED <<pageState, call_count, cur_since, cur_data, acc_data, result, envVars, dbVars, mainVars, gdfVars, retVars>>

\* a faulty variant of CcxtAfter: an empty page discards what was accumulated
CcxtAfter_discards ==
  /\ loop = "ccxt" /\ lpc = "after"
  /\ IF cur_data = <<>>
     THEN /\ result' = get_empty_ohlcv_df
          /\ lpc' = "done"
          /\ UNCHANGED <<call_count, acc_data, cur_since>>
     ELSE /\ call_count' = call_count + 1
          /\ acc_data' = acc_data \o cur_data
          /\ cur_since' = cur_data[Len(cur_data)] + 1
          /\ IF to_date_is_found_or_passed(cur_data, window[2])
             THEN /\ result' = format_ccxt_returned_data(acc_data', to_datetime_ms(window[2]))
                  /\ lpc' = "done"
             ELSE /\ lpc' = "call"
                  /\ UNCHANGED result
  /\ UNCHANGED <<pageState, cur_data, events, envVars, dbVars, mainVars, gdfVars, retVars>>

\* lines 146-156 and 142, then fetch_ohlcv's line 124 when the loop returns
CcxtAfter ==
  /\ loop = "ccxt" /\ lpc = "after"
  /\ IF cur_data = <<>>
     THEN /\ result' = format_ccxt_returned_data(acc_data, to_datetime_ms(window[2]))
          /\ lpc' = "done"
          /\ UNCHANGED <<call_count, acc_data, cur_since>>
     ELSE /\ call_count' = call_count + 1
          /\ acc_data' = acc_data \o cur_data
          /\ cur_since' = cur_data[Len(cur_data)] + 1
          /\ IF to_date_is_found_or_passed(cur_data, window[2])
             THEN /\ result' = format_ccxt_returned_data(acc_data', to_datetime_ms(window[2]))
                  /\ lpc' = "done"
             ELSE /\ lpc' = "call"
                  /\ UNCHANGED result
  /\ UNCHANGED <<pageState, cur_data, events, envVars, dbVars, mainVars, gdfVars, retVars>>

\* retrieve_data_from_exchange lines 455 and 466: sleep(exchange.rateLimit / 1000)
RdeSleep ==
  /\ loop = "rde" /\ lpc = "sleep"
  /\ events' = Append(events, Event("sleep", cur_since))
  /\ lpc' = "call"
  /\ UNCHANGED <<pageState, call_count, cur_since, cur_data, acc_data, result, envVars, dbVars, mainVars, gdfVars, retVars>>

\* lines 458 and 468: df = fetch_ohlcv_dataframe_from_exchange(...)
RdeCall ==
  /\ loop = "rde" /\ lpc = "call"
  /\ cur_data' = fetch_ohlcv_dataframe_from_exchange(remote, Symbol, cur_since)
  /\ events' = Append(events, Event("call", cur_since))
  /\ lpc' = "after"
  /\ UNCHANGED <<pageState, call_count, cur_since, acc_data, result, envVars, dbVars, mainVars, gdfVars, retVars>>

\* a faulty variant of RdeAfter: the next call starts at the last row itself
RdeAfter_same_row ==
  /\ loop = "rde" /\ lpc = "after"
  /\ IF NCalls = 1 /\ cur_data = <<>>
     THEN /\ result' = <<>>
          /\ lpc' = "done"
          /\ UNCHANGED <<call_count, acc_data, cur_since>>
     ELSE /\ acc_data' = acc_data \o cur_data
          /\ IF RdeContinue(cur_data, call_count, acc_data', window[2], max_calls)
             THEN /\ call_count' = call_count + 1
                  /\ cur_since' = cur_data[Len(cur_data)].ts
                  /\ lpc' = "sleep"
                  /\ UNCHANGED result
             ELSE /\ result' = RdeReturn(cur_data, call_count, acc_data', window[1], window[2],
                                         timeframe, max_calls, nowMs)
                  /\ lpc' = "done"
                  /\ UNCHANGED <<call_count, cur_since>>
  /\ UNCHANGED <<pageState, cur_data, events, envVars, dbVars, mainVars, gdfVars, retVars>>

\* lines 459-462 after the first call, line 469 after a later one; then the
\* while condition of line 463 and, when it fails, the return of lines 470-474
RdeAfter ==
  /\ loop = "rde" /\ lpc = "after"
  /\ IF NCalls = 1 /\ cur_data = <<>>
     THEN /\ result' = <<>>
          /\ lpc' = "done"
          /\ UNCHANGED <<call_count, acc_data, cur_since>>
     ELSE /\ acc_data' = acc_data \o cur_data
          /\ IF RdeContinue(cur_data, call_count, acc_data', window[2], max_calls)
             THEN /\ call_count' = call_count + 1
                  /\ cur_since' = cur_data[Len(cur_data)].ts + 1
                  /\ lpc' = "sleep"
                  /\ UNCHANGED result
             ELSE /\ result' = RdeReturn(cur_data, call_count, acc_data', window[1], window[2],
                                         timeframe, max_calls, nowMs)
                  /\ lpc' = "done"
                  /\ UNCHANGED <<call_count, cur_since>>
  /\ UNCHANGED <<pageState, cur_data, events, envVars, dbVars, mainVars, gdfVars, retVars>>

\* no invocation of main runs
MainIdle ==
  /\ storedKind = "none" /\ hasOnline = TRUE /\ fileRows = <<>>
  /\ tableExists = FALSE /\ dbRows = <<>>
  /\ pc = <<>> /\ all_data = <<>> /\ online_data = <<>>
  /\ pull_date = <<>> /\ fetches = <<>> /\ stored = <<>>

NowChoices == {convert_datetime_to_UTC_Ms(DateStart(MaxDay + 1)), convert_datetime_to_UTC_Ms(DateStart(MaxDay + 4))}

\* CCXTDataRetriver.fetch_ohlcv lines 120-123, or a retrieve_data_from_exchange call
\* with get_DataFrame's from_date_ms and end_date_ms of lines 361-365
PageInit ==
  /\ timeframe \in Timeframes
  /\ from_date \in Dates
  /\ to_date \in {d \in Dates : from_date <= d}
  /\ remote \in RemoteHistories(timeframe)
  /\ loop \in {"ccxt", "rde"}
  /\ max_calls \in 1..MaxCalls
  /\ nowMs \in NowChoices
  /\ window = IF loop = "ccxt"
              THEN LET dts == get_from_and_to_datetimes(DateStart(from_date), DateStart(to_date))
                   IN <<convert_datetime_to_UTC_Ms(dts[1]), convert_datetime_to_UTC_Ms(dts[2])>>
              ELSE <<convert_datetime_to_UTC_Ms(DateStart(from_date)),
                     convert_datetime_to_UTC_Ms(DateStart(to_date))>>
  /\ lpc = IF loop = "ccxt" THEN "call" ELSE "sleep"
  /\ call_count = 1
  /\ cur_since = window[1]
  /\ cur_data = <<>> /\ acc_data = <<>> /\ events = <<>> /\ result = <<>>
  /\ MainIdle /\ GdfIdle /\ RetIdle

PageNext ==
  \/ CcxtCall
  \/ CcxtSleep
  \/ CcxtAfter
  \/ RdeSleep
  \/ RdeCall
  \/ RdeAfter

SpecPage == PageInit /\ [][PageNext]_vars


Next ==
  \/ \E p \in Procs : QueryStored(p)
  \/ \E p \in Procs : QueryStoredRaises(p)
  \/ \E p \in Procs : HeadCheck(p)
  \/ \E p \in Procs : HeadCheckRaises(p)
  \/ \E p \in Procs : HeadFetch(p)
  \/ \E p \in Procs : HeadFetchRaises(p)
  \/ \E p \in Procs : HeadStore(p)
  \/ \E p \in Procs : HeadMerge(p)
  \/ \E p \in Procs : TailCheck(p)
  \/ \E p \in Procs : TailCheckRaises(p)
  \/ \E p \in Procs : TailFetch(p)
  \/ \E p \in Procs : TailFetchRaises(p)
  \/ \E p \in Procs : TailStore(p)
  \/ \E p \in Procs : TailMerge(p)

Spec == Init /\ [][Next]_vars

\* main over stored rows whose first row, last row or both are marked final
MarkedInit ==
  /\ MainStart({1}, (BOOLEAN \X BOOLEAN) \ {<<FALSE, FALSE>>})
  /\ PageIdle /\ GdfIdle /\ RetIdle

SpecMarked == MarkedInit /\ [][Next]_vars

(* --------------------------- get_DataFrame ----------------------------- *)
\* get_saved_data's query, lines 490-510: the rows of the listed symbols between
\* the start of from_date and the start of end_date that lie on the timeframe's grid
SavedQuery(table, symbols, start_date, end_date, tf) ==
  LET Sel(r) == /\ \E i \in 1..Len(symbols) : r.sym = symbols[i]
                /\ r.ts >= start_date
                /\ r.ts <= end_date
                /\ r.ts % convert_timeframe_to_ms(tf) = 0
  IN SelectSeq(table, Sel)

\* index.to_series().diff() == timeframe_ms, by position
InTimeframe(df, tf, i) == i > 1 /\ df[i].ts - df[i - 1].ts = convert_timeframe_to_ms(tf)

trim_data_outside_timeframe(df, tf) ==
  LET trues == {df[i].ts : i \in {j \in 1..Len(df) : InTimeframe(df, tf, j)}}
      keep == {i \in 1..Len(df) : InTimeframe(df, tf, i) \/ df[i].ts < SetMin(trues)}
      pos == AscSeq(keep)
  IN IF df = <<>> THEN df
     ELSE IF trues = {} THEN get_empty_ohlcv_df
     ELSE [k \in 1..Len(pos) |-> df[pos[k]]]

get_saved_data(table, symbols, from, to, tf) ==
  trim_data_outside_timeframe(
    SavedQuery(table, symbols, convert_datetime_to_UTC_Ms(DateStart(from)),
               convert_datetime_to_UTC_Ms(DateStart(to)), tf), tf)

SymbolRows(df, symbol) == LET Is(r) == r.sym = symbol IN SelectSeq(df, Is)

\* symbol_df.at[t, 'Is_Final_Row'] != 1
NotFinalAt(df, t) == \E i \in 1..Len(df) : df[i].ts = t /\ df[i].fin # "1"

\* set_data_timestamp_index: the ms index as datetimes
set_data_timestamp_index(df) == [i \in 1..Len(df) |-> [df[i] EXCEPT !.ts = to_datetime_ms(df[i].ts)]]

Keys(table) == {<<table[i].sym, table[i].ts>> : i \in 1..Len(table)}

\* to_sql('OHLCV_DATA', connection, if_exists='append') fails on a row whose
\* (Symbol, Timestamp) the table holds
InsertFails(table, df) == \E i \in 1..Len(df) : <<df[i].sym, df[i].ts>> \in Keys(table)

from_date_ms == convert_datetime_to_UTC_Ms(DateStart(from_date))
end_date_ms == convert_datetime_to_UTC_Ms(DateStart(to_date))
two_days_ms == 2 * Day * MsPerSecond

CurSymbol == symbol_list[sym_idx]
CurSymbolDf == SymbolRows(saved_df, CurSymbol)

Rde(symbol, first, last) ==
  retrieve_data_from_exchange(remote, symbol, first, last, timeframe, max_calls, nowMs)

GFetch(symbol, gap, first, last) == [sym |-> symbol, gap |-> gap, range |-> <<first, last>>]

gdfState == <<symbol_list, max_calls, nowMs>>
gdfRest == <<envVars, dbVars, mainVars, retVars, loop, lpc, window, call_count, cur_since, cur_data, acc_data, events, result>>

\* lines 358-365
GdfLoad ==
  /\ gpc = "load"
  /\ saved_df' = get_saved_data(ohlcvTable, symbol_list, from_date, to_date, timeframe)
  /\ sym_idx' = 1
  /\ gpc' = "loop"
  /\ UNCHANGED <<gdfState, gdfRest, ohlcvTable, return_df, gfetches>>

InLoop == gpc = "loop" /\ sym_idx <= Len(symbol_list)

\* lines 400-401: no exchange was passed in
GdfNoExchange ==
  /\ InLoop /\ ~hasOnline
  /\ gpc' = "raised_name"
  /\ UNCHANGED <<gdfState, gdfRest, ohlcvTable, saved_df, sym_idx, return_df, gfetches>>

\* lines 369-375 and 402-405: nothing saved for the symbol
GdfFetchAll ==
  /\ InLoop /\ hasOnline /\ CurSymbolDf = <<>>
  /\ LET symbol_df == Rde(CurSymbol, from_date_ms, end_date_ms)
     IN /\ gfetches' = Append(gfetches, GFetch(CurSymbol, "all", from_date_ms, end_date_ms))
        /\ IF symbol_df = <<>>
           THEN /\ sym_idx' = sym_idx + 1
                /\ UNCHANGED <<gpc, ohlcvTable, return_df>>
           ELSE IF InsertFails(ohlcvTable, symbol_df)
           THEN /\ gpc' = "raised_store"
                /\ UNCHANGED <<sym_idx, ohlcvTable, return_df>>
           ELSE /\ ohlcvTable' = ohlcvTable \o symbol_df
                /\ return_df' = return_df \o set_data_timestamp_index(symbol_df)
                /\ sym_idx' = sym_idx + 1
                /\ UNCHANGED gpc
  /\ UNCHANGED <<gdfState, gdfRest, saved_df>>

\* lines 378-379
need_prior_data(symbol_df) ==
  LET first_df_timestamp == SetMin(Index(symbol_df))
  IN first_df_timestamp # from_date_ms /\ NotFinalAt(symbol_df, first_df_timestamp)

\* lines 388-391
need_later_data(symbol_df) ==
  LET last_df_timestamp == SetMax(Index(symbol_df))
      last_timestamp_is_older_than_two_days == last_df_timestamp < nowMs - two_days_ms
  IN /\ last_df_timestamp # end_date_ms
     /\ NotFinalAt(symbol_df, last_df_timestamp)
     /\ last_timestamp_is_older_than_two_days

\* lines 377-398 and 402-405: something is saved for the symbol
GdfFillGaps ==
  /\ InLoop /\ hasOnline /\ CurSymbolDf # <<>>
  /\ LET df0 == CurSymbolDf
         prior == need_prior_data(df0)
         prior_data == IF prior THEN Rde(CurSymbol, from_date_ms, SetMin(Index(df0)) - 1) ELSE <<>>
         priorFails == prior /\ InsertFails(ohlcvTable, prior_data)
         table1 == ohlcvTable \o prior_data
         df1 == IF prior THEN sort_index(df0 \o prior_data) ELSE df0
         later == need_later_data(df1)
         later_data == IF later THEN Rde(CurSymbol, SetMax(Index(df1)) + 1, end_date_ms) ELSE <<>>
         laterFails == later /\ InsertFails(table1, later_data)
         df2 == df1 \o later_data
         f1 == IF prior
               THEN Append(gfetches, GFetch(CurSymbol, "head", from_date_ms, SetMin(Index(df0)) - 1))
               ELSE gfetches
         f2 == IF later /\ ~priorFails
               THEN Append(f1, GFetch(CurSymbol, "tail", SetMax(Index(df1)) + 1, end_date_ms))
               ELSE f1
     IN /\ gfetches' = f2
        /\ IF priorFails
           THEN /\ gpc' = "raised_store"
                /\ UNCHANGED <<sym_idx, ohlcvTable, return_df>>
           ELSE IF laterFails
           THEN /\ gpc' = "raised_store"
                /\ ohlcvTable' = table1
                /\ UNCHANGED <<sym_idx, return_df>>
           ELSE /\ ohlcvTable' = table1 \o later_data
                /\ return_df' = return_df \o set_data_timestamp_index(df2)
                /\ sym_idx' = sym_idx + 1
                /\ UNCHANGED gpc
  /\ UNCHANGED <<gdfState, gdfRest, saved_df>>

\* the first exchange call of the symbol's iteration raises: get_DataFrame has no handler
GdfFetchRaises ==
  /\ InLoop /\ hasOnline
  /\ IF CurSymbolDf = <<>> THEN TRUE
     ELSE need_prior_data(CurSymbolDf) \/ need_later_data(CurSymbolDf)
  /\ gfetches' = Append(gfetches,
       IF CurSymbolDf = <<>> THEN GFetch(CurSymbol, "all", from_date_ms, end_date_ms)
       ELSE IF need_prior_data(CurSymbolDf)
       THEN GFetch(CurSymbol, "head", from_date_ms, SetMin(Index(CurSymbolDf)) - 1)
       ELSE GFetch(CurSymbol, "tail", SetMax(Index(CurSymbolDf)) + 1, end_date_ms))
  /\ gpc' = "raised_fetch"
  /\ UNCHANGED <<gdfState, gdfRest, ohlcvTable, saved_df, sym_idx, return_df>>

\* lines 406-407
GdfReturn ==
  /\ gpc = "loop" /\ sym_idx > Len(symbol_list)
  /\ gpc' = "done"
  /\ UNCHANGED <<gdfState, gdfRest, ohlcvTable, saved_df, sym_idx, return_df, gfetches>>

\* the saved rows of Symbol: one unbroken run of bars, the first and the last of
\* which an earlier fetch may have marked final
SavedRuns(tf) ==
  {[i \in 1..Cardinality(run) |->
      [ts |-> convert_datetime_to_UTC_Ms(AscSeq(run)[i]), sym |-> Symbol, src |-> "stored",
       fin |-> IF (i = 1 /\ m[1]) \/ (i = Cardinality(run) /\ m[2]) THEN "1" ELSE "nan"]] :
     run \in RemoteHistories(tf) \ {{}}, m \in BOOLEAN \X BOOLEAN} \cup {<<>>}

GdfInit ==
  /\ timeframe \in Timeframes
  /\ from_date \in Dates
  /\ to_date \in {d \in Dates : from_date <= d}
  /\ hasOnline \in BOOLEAN
  /\ remote \in IF hasOnline THEN RemoteHistories(timeframe) ELSE {{}}
  /\ max_calls \in 1..MaxCalls
  /\ nowMs \in NowChoices
  /\ symbol_list \in {<<Symbol>>, <<OtherSymbol, Symbol>>}
  /\ ohlcvTable \in SavedRuns(timeframe)
  /\ gpc = "load" /\ saved_df = <<>> /\ sym_idx = 0 /\ return_df = <<>> /\ gfetches = <<>>
  /\ storedKind = "none" /\ fileRows = <<>> /\ tableExists = FALSE /\ dbRows = <<>>
  /\ pc = <<>> /\ all_data = <<>> /\ online_data = <<>>
  /\ pull_date = <<>> /\ fetches = <<>> /\ stored = <<>>
  /\ loop = "none" /\ lpc = "idle" /\ window = <<0, 0>>
  /\ call_count = 0 /\ cur_since = 0 /\ cur_data = <<>> /\ acc_data = <<>>
  /\ events = <<>> /\ result = <<>>
  /\ RetIdle

GdfNext ==
  \/ GdfLoad
  \/ GdfNoExchange
  \/ GdfFetchAll
  \/ GdfFillGaps
  \/ GdfFetchRaises
  \/ GdfReturn

SpecGdf == GdfInit /\ [][GdfNext]_vars

(* ------------------------- properties of main -------------------------- *)
\* the bars of the timeframe that a range of datetimes <<first, last>> contains
RangeBars(range) == {t \in Slots(timeframe) : range[1] <= t /\ t <= range[2]}

\* the bars of the request [from_date, to_date]
RequestBars == RangeBars(get_from_and_to_datetimes(DateStart(from_date), DateStart(to_date)))

\* main has got the stored retriever's answer
Queried(p) ==
  /\ pc[p] \notin {"start", "raised_query"}
  /\ pc[p] = "raised_truth" => storedKind # "db" \/ stored[p] # <<>> \/ pull_date[p] # NoneVal

\* main is past its head-gap decision, and past the head fetch call if it made one
HeadDecided(p) ==
  /\ Queried(p) /\ hasOnline /\ pc[p] \notin {"head_check", "head_fetch"}
  /\ pc[p] = "raised_truth" => pull_date[p] # NoneVal \/ fetches[p] # <<>>

\* main is past its tail-gap decision, and past the tail fetch call if it made one
TailDecided(p) ==
  \/ hasOnline /\ pc[p] \in {"tail_store", "tail_merge", "done"}
  \/ pc[p] = "raised_fetch" /\ fetches[p][Len(fetches[p])].gap = "tail"
  \/ pc[p] \in {"raised_store", "raised_call"} /\ fetches[p][Len(fetches[p])].gap = "tail"

GapFetches(p, gap) == {i \in 1..Len(fetches[p]) : fetches[p][i].gap = gap}

C3_TailGapFetch ==
  \A p \in Procs :
    ( /\ TailDecided(p)
      /\ stored[p] # <<>>
      /\ DateStart(from_date) \in Index(stored[p])
      /\ DateStart(to_date) \notin Index(stored[p]) ) =>
      /\ Len(fetches[p]) = 1
      /\ fetches[p][1].gap = "tail"
      /\ RangeBars(fetches[p][1].range) =
           RangeBars(<<SetMax(Index(stored[p])) + TimeframeSeconds(timeframe),
                       DateStart(to_date) + Day - Second>>)

\* C4: head-gap fetch: when the stored series is non-empty and lacks from_date,
\* main issues one head fetch, for the bars from from_date to min(stored) - one
\* timeframe unit, whatever the timeframe; when it holds from_date, none.
C4_HeadGapFetch ==
  \A p \in Procs :
    (HeadDecided(p) /\ stored[p] # <<>>) =>
      IF DateStart(from_date) \in Index(stored[p])
      THEN GapFetches(p, "head") = {}
      ELSE /\ GapFetches(p, "head") = {1}
           /\ RangeBars(fetches[p][1].range) =
                RangeBars(<<DateStart(from_date),
                            SetMin(Index(stored[p])) - TimeframeSeconds(timeframe)>>)

\* C5: empty store: when the stored retriever returns nothing and an online
\* retriever is given, the ranges main has requested from the online retriever
\* by the end of its gap handling contain every bar of [from_date, to_date].
C5_EmptyStoreFetchesAll ==
  \A p \in Procs :
    (TailDecided(p) /\ stored[p] = <<>>) =>
      RequestBars \subseteq UNION {RangeBars(fetches[p][i].range) : i \in 1..Len(fetches[p])}

StrictlyAscending(df) == \A i \in 1..(Len(df) - 1) : df[i].ts < df[i + 1].ts

Contiguous(S) ==
  S # {} /\ \A t \in Slots(timeframe) : (SetMin(S) <= t /\ t <= SetMax(S)) => t \in S

SavedCovers ==
  \A k \in 1..Len(symbol_list) :
    \A t \in Slots(timeframe) :
      (from_date_ms <= convert_datetime_to_UTC_Ms(t) /\ convert_datetime_to_UTC_Ms(t) <= end_date_ms) =>
        \E i \in 1..Len(saved_df) :
          saved_df[i].sym = symbol_list[k] /\ saved_df[i].ts = convert_datetime_to_UTC_Ms(t)

\* C8: cache-only mode: without an exchange the reconciler raises nothing, makes
\* no exchange call, writes nothing to the store and returns the saved rows; stated
\* here for get_DataFrame when the saved rows cover the request.
C8_CacheOnly ==
  (~hasOnline /\ gpc # "load" /\ SavedCovers) =>
    /\ gpc \in {"loop", "done"}
    /\ gfetches = <<>>
    /\ \A i \in 1..Len(ohlcvTable) : ohlcvTable[i].src = "stored"
    /\ gpc = "done" => return_df = set_data_timestamp_index(saved_df)

\* C9: best effort: an online fetch that raises does not fail main's request.
C9_FetchErrorNotFatal ==
  \A p \in Procs : pc[p] # "raised_fetch"

(* -------------------- properties of the paginated fetch ---------------- *)
\* the recursive definitions the reconcilers use agree with the stepwise loops
StepwiseAgrees ==
  lpc = "done" =>
    result = IF loop = "ccxt"
             THEN format_ccxt_returned_data(get_all_ccxt_data(remote, window[1], window[2]),
                                            to_datetime_ms(window[2]))
             ELSE retrieve_data_from_exchange(remote, Symbol, window[1], window[2], timeframe, max_calls, nowMs)

\* every page the exchange has returned so far is full and ends before to_date_ms
FullPagesBeforeEnd ==
  \A i \in 1..Len(events) :
    events[i].ev = "call" =>
      LET page == ExchangePage(remote, events[i].since)
      IN Len(page) = PageSize /\ \A j \in 1..Len(page) : page[j] < window[2]

\* C10: pagination termination: against an exchange whose pages are all full and
\* end before to_date, a paginated fetch makes no more than max_calls exchange calls.
C10_CallsWithinCap == FullPagesBeforeEnd => NCalls <= max_calls

\* the since values of the exchange calls made so far, in order
CallSinces == SelectSeq([i \in 1..Len(events) |-> events[i]], LAMBDA e : e.ev = "call")

\* the cap is used up: max_calls calls are made, the page of the max_calls-th is
\* full, and no row of the first max_calls pages has reached to_date_ms
CapExhausted ==
  /\ NCalls >= max_calls
  /\ Len(ExchangePage(remote, CallSinces[max_calls].since)) = PageSize
  /\ \A k \in 1..max_calls :
       LET page == ExchangePage(remote, CallSinces[k].since)
       IN \A j \in 1..Len(page) : page[j] < window[2]

\* C11: safety-cap exhaustion: a paginated fetch whose cap is used up while the last
\* page is full and no row has reached the requested end returns an empty series,
\* never the accumulated pages.
C11_CapExhaustedReturnsEmpty ==
  (lpc = "done" /\ CapExhausted) => result = <<>>

(* ------------- the store and the retrievers, called directly ----------- *)
MaxStores == 2

\* str(from_date) / str(to_date) as get_query formats it: "YYYY-MM-DD" for a date,
\* "YYYY-MM-DD HH:MM:SS" for a datetime
ArgText(kind, t) == IF kind = "date" THEN DateText(t) ELSE TimestampText(t)

\* get_query with its arguments of either kind
QueryRowsAs(kind, rows, symbol, from, to) ==
  LET Sel(r) == /\ r.sym = symbol
                /\ TextLeq(ArgText(kind, from), TimestampText(r.ts))
                /\ TextLeq(TimestampText(r.ts), ArgText(kind, to))
  IN SelectSeq(rows, Sel)

DB_fetch_ohlcv_as(kind, rows, symbol, from, to) ==
  format_database_data(QueryRowsAs(kind, rows, symbol, from, to))

\* pd.read_sql_query on a table the sqlite file does not have raises; neither
\* get_query_result_as_dataframe nor fetch_ohlcv catches it
read_sql_query_raises(exists) == ~exists

Logged(name, outcome, value) == [op |-> name, out |-> outcome, val |-> value]

NStores == Cardinality({i \in 1..Len(rlog) : rlog[i].op = "store"})

Fetched == \E i \in 1..Len(rlog) : rlog[i].op \notin {"create", "store"}

retRest == <<envVars, mainVars, pageVars, gdfVars, series, argKind, raw>>

\* SQLite3OHLCVDatabase.create_table_if_not_exists
RCreateTable ==
  /\ rlog = <<>>
  /\ tableExists' = TRUE
  /\ rlog' = Append(rlog, Logged("create", "ok", <<>>))
  /\ UNCHANGED <<dbRows, retRest>>

\* SQLite3OHLCVDatabase.store_dataframe(series, timeframe)
RStore ==
  /\ ~Fetched /\ NStores < MaxStores
  /\ IF store_dataframe_raises(tableExists)
     THEN /\ rlog' = Append(rlog, Logged("store", "raised_exists", <<>>))
          /\ UNCHANGED dbVars
     ELSE /\ rlog' = Append(rlog, Logged("store", "ok", <<>>))
          /\ tableExists' = TRUE
          /\ dbRows' = store_dataframe_rows(dbRows, series)
  /\ UNCHANGED retRest

\* DatabaseRetriver.fetch_ohlcv(symbol, timeframe, from_date, to_date) that returns
RDbFetch ==
  /\ ~Fetched /\ ~read_sql_query_raises(tableExists)
  /\ rlog' = Append(rlog, Logged("db_fetch", "ok",
                DB_fetch_ohlcv_as(argKind, dbRows, Symbol, DateStart(from_date), DateStart(to_date))))
  /\ UNCHANGED <<dbVars, retRest>>

\* the same call when the query raises, or when the truth test of line 184 does
RDbFetchRaises ==
  /\ ~Fetched
  /\ rlog' = Append(rlog, Logged("db_fetch",
                IF read_sql_query_raises(tableExists) THEN "raised_query" ELSE "raised_truth", <<>>))
  /\ UNCHANGED <<dbVars, retRest>>

\* CSVDataRetriver.fetch_ohlcv(symbol, timeframe, from_date, to_date)
RCsvFetch ==
  /\ ~Fetched
  /\ rlog' = Append(rlog, Logged("csv_fetch", "ok",
                CSV_fetch_ohlcv(fileRows, Symbol, DateStart(from_date), DateStart(to_date))))
  /\ UNCHANGED <<dbVars, retRest>>

\* CCXTDataRetriver.fetch_ohlcv(symbol, timeframe, from_date, to_date)
RCcxtFetch ==
  /\ ~Fetched
  /\ rlog' = Append(rlog, Logged("ccxt_fetch", "ok",
                CCXT_fetch_ohlcv(remote, DateStart(from_date), DateStart(to_date))))
  /\ UNCHANGED <<dbVars, retRest>>

\* line 124: format_ccxt_returned_data(data, symbol, to_datetime) on the candles
\* the endpoint has returned
RFormatCcxt ==
  /\ ~Fetched
  /\ rlog' = Append(rlog, Logged("ccxt_format", "ok",
                format_ccxt_returned_data(raw,
                  get_from_and_to_datetimes(DateStart(from_date), DateStart(to_date))[2])))
  /\ UNCHANGED <<dbVars, retRest>>

\* a CSV file: the rows of Symbol in ascending order, after a row of another symbol or not
FileOf(S, withOther) ==
  (IF withOther /\ S # {}
   THEN <<[ts |-> SetMin(S), sym |-> OtherSymbol, fin |-> "nan", src |-> "stored"]>>
   ELSE <<>>) \o Rows(S, "stored")

RetInit ==
  /\ timeframe \in Timeframes
  /\ from_date \in Dates
  /\ to_date \in {d \in Dates : from_date <= d}
  /\ argKind \in {"date", "datetime"}
  /\ tableExists = FALSE /\ dbRows = <<>>
  /\ \E S \in SUBSET Slots(timeframe), withOther \in BOOLEAN :
       /\ series = Rows(S, "online")
       /\ fileRows = FileOf(S, withOther)
       /\ remote = S
       /\ raw = AscSeq({convert_datetime_to_UTC_Ms(t) : t \in S})
  /\ rlog = <<>>
  /\ storedKind = "none" /\ hasOnline = TRUE
  /\ pc = <<>> /\ all_data = <<>> /\ online_data = <<>>
  /\ pull_date = <<>> /\ fetches = <<>> /\ stored = <<>>
  /\ PageIdle /\ GdfIdle

RetNext ==
  \/ RCreateTable
  \/ RStore
  \/ RDbFetch
  \/ RDbFetchRaises
  \/ RCsvFetch
  \/ RCcxtFetch
  \/ RFormatCcxt

SpecRet == RetInit /\ [][RetNext]_vars

(* --------------- properties of the store and the retrievers ------------ *)
\* the timestamp, symbol and boundary flag of every row, in order
Values(df) == [i \in 1..Len(df) |-> <<df[i].ts, df[i].sym, df[i].fin>>]

\* C12: idempotent insert: storing the same records twice through
\* store_dataframe succeeds both times, and the table then holds each record
\* once, with the values of the first insert.
C12_IdempotentInsert ==
  (NStores = 2 /\ series # <<>>) =>
    /\ \A i \in 1..Len(rlog) : rlog[i].op = "store" => rlog[i].out = "ok"
    /\ Values(dbRows) = Values(series)

\* the last call was a DatabaseRetriver.fetch_ohlcv that returned, after the
\* series was stored once into a fresh table
StoredThenFetched ==
  /\ Len(rlog) >= 2
  /\ rlog[Len(rlog)].op = "db_fetch" /\ rlog[Len(rlog)].out = "ok"
  /\ NStores = 1
  /\ \A i \in 1..Len(rlog) : rlog[i].op = "store" => rlog[i].out = "ok"

\* C13: round trip: a series lying in [from_date, to_date] that is stored and then
\* fetched by the store-backed retriever over the same range comes back equal
\* (timestamps, order, values), and equal to what the file-backed retriever
\* returns for that range.
C13_RoundTrip ==
  (StoredThenFetched /\ Index(series) \subseteq RequestBars) =>
    /\ Values(rlog[Len(rlog)].val) = Values(series)
    /\ Values(rlog[Len(rlog)].val) =
         Values(CSV_fetch_ohlcv(fileRows, Symbol, DateStart(from_date), DateStart(to_date)))

(* ---------------------- two invocations of main ------------------------ *)
\* two invocations of main for the same symbol, timeframe and range, over the
\* same store and exchange
ConcInit == MainInit({1, 2}) /\ PageIdle /\ GdfIdle /\ RetIdle

SpecConc == ConcInit /\ [][Next]_vars

\* both invocations got the same stored series and both have requested the gap
BothFetched ==
  /\ Procs = {1, 2}
  /\ Queried(1) /\ Queried(2) /\ stored[1] = stored[2]
  /\ fetches[1] # <<>> /\ fetches[2] # <<>>
  /\ fetches[1][1] = fetches[2][1]

\* C14: concurrent backfills: when two invocations of main detect and fetch the
\* same gap, neither insert into the store raises, and the table holds one row
\* per (symbol, timestamp).
C14_ConcurrentBackfills ==
  BothFetched =>
    /\ \A p \in Procs : pc[p] # "raised_store"
    /\ Cardinality(Keys(dbRows)) = Len(dbRows)

\* C15: remote source clipping: every row the remote source's fetch returns has a
\* timestamp between the start of from_date and the end of to_date, whatever
\* candles the endpoint returned.
C15_RemoteClipping ==
  \A i \in 1..Len(rlog) :
    rlog[i].op \in {"ccxt_fetch", "ccxt_format"} =>
      \A k \in 1..Len(rlog[i].val) :
        LET dts == get_from_and_to_datetimes(DateStart(from_date), DateStart(to_date))
        IN dts[1] <= rlog[i].val[k].ts /\ rlog[i].val[k].ts <= dts[2]

\* the rows of the file for Symbol dated from_date .. to_date: those before the
\* start of the day after to_date and not before the start of from_date
FileRowsInDates ==
  {i \in 1..Len(fileRows) :
     /\ fileRows[i].sym = Symbol
     /\ DateStart(from_date) <= fileRows[i].ts
     /\ fileRows[i].ts < DateStart(to_date + 1)}

\* C16: file-backed source exactness: CSVDataRetriver.fetch_ohlcv returns the
\* file's rows of the requested symbol dated from_date .. to_date, each once, in
\* file order and unchanged, and nothing else.
C16_CsvExactness ==
  \A i \in 1..Len(rlog) :
    rlog[i].op = "csv_fetch" =>
      LET val == rlog[i].val
      IN /\ rlog[i].out = "ok"
         /\ Len(val) = Cardinality(FileRowsInDates)
         /\ \A k \in 1..Len(val) : \E j \in FileRowsInDates : val[k] = fileRows[j]
         /\ \A j \in FileRowsInDates : \E k \in 1..Len(val) : val[k] = fileRows[j]
         /\ StrictlyAscending(val)

\* a fetch of the middle day from a file that has earlier and later rows and a row
\* of another symbol
C16_Witness ==
  /\ rlog # <<>> /\ rlog[Len(rlog)].op = "csv_fetch"
  /\ Len(rlog[Len(rlog)].val) = 1
  /\ from_date = 2 /\ to_date = 2 /\ timeframe = "1d"
  /\ \E i \in 1..Len(fileRows) : fileRows[i].ts < DateStart(from_date)
  /\ \E i \in 1..Len(fileRows) : fileRows[i].ts >= DateStart(to_date + 1)
  /\ \E i \in 1..Len(fileRows) : fileRows[i].sym = OtherSymbol

\* the datetimes of to_date: from the start of its day to the end of its day
DuringToDate(t) == DateStart(to_date) <= t /\ t < DateStart(to_date + 1)

\* the timestamps of Symbol's rows a source holds: the file, the table, the exchange
Available(op) ==
  IF op = "csv_fetch" THEN {fileRows[j].ts : j \in {k \in 1..Len(fileRows) : fileRows[k].sym = Symbol}}
  ELSE IF op = "db_fetch" THEN {dbRows[j].ts : j \in {k \in 1..Len(dbRows) : dbRows[k].sym = Symbol}}
  ELSE remote

\* C17: date-to-instant rule: for a timeframe finer than one day, a fetch of any
\* source variant (file-backed, store-backed, remote) that returns includes every
\* bar the source holds that is stamped during to_date.
C17_ToDateFullyCovered ==
  \A i \in 1..Len(rlog) :
    ( /\ rlog[i].op \in {"csv_fetch", "db_fetch", "ccxt_fetch"}
      /\ rlog[i].out = "ok"
      /\ timeframe = "12h" ) =>
      \A t \in Available(rlog[i].op) : DuringToDate(t) => t \in Index(rlog[i].val)

\* C18: failing store query: a DatabaseRetriver.fetch_ohlcv whose query fails
\* returns to its caller (with an empty series); the failure of the query does
\* not propagate.
C18_QueryFailureReturnsEmpty ==
  \A i \in 1..Len(rlog) :
    rlog[i].op = "db_fetch" => rlog[i].out # "raised_query"

\* C19: rate-limit precondition: every exchange call of a paginated fetch, the
\* first included, comes right after a sleep of the rate-limit interval.
C19_SleepBeforeEveryCall ==
  \A i \in 1..Len(events) :
    events[i].ev = "call" => (i > 1 /\ events[i - 1].ev = "sleep")

\* the candle timestamps (ms) of the pages the first k exchange calls returned
RECURSIVE PagesUpTo(_)
PagesUpTo(k) ==
  IF k = 0 THEN <<>>
  ELSE PagesUpTo(k - 1) \o ExchangePage(remote, CallSinces[k].since)

\* the last exchange call made so far returned no rows
LastPageEmpty == NCalls >= 1 /\ ExchangePage(remote, CallSinces[NCalls].since) = <<>>

\* C20: empty page ends the fetch: a call that returns no rows is the last call
\* of the paginated fetch, and the fetch returns the rows (timestamp and symbol)
\* of the earlier pages, in order: none when it was the first call.
C20_EmptyPageEndsFetch ==
  /\ \A k \in 1..NCalls : ExchangePage(remote, CallSinces[k].since) = <<>> => k = NCalls
  /\ (lpc = "done" /\ LastPageEmpty) =>
       LET earlier == PagesUpTo(NCalls - 1)
       IN /\ Len(result) = Len(earlier)
          /\ \A i \in 1..Len(result) :
               /\ result[i].sym = Symbol
               /\ result[i].ts = IF loop = "ccxt" THEN to_datetime_ms(earlier[i]) ELSE earlier[i]

C20_Witness ==
  /\ loop = "ccxt" /\ lpc = "done" /\ LastPageEmpty
  /\ NCalls >= 2 /\ result # <<>>

\* the page the k-th exchange call of the fetch returned
PageOf(k) == ExchangePage(remote, CallSinces[k].since)

\* C21: page advance: the call after a non-empty page uses since = the timestamp
\* of that page's last row + 1, so the since values of one fetch increase
\* strictly and no timestamp is accumulated twice.
C21_PageAdvance ==
  /\ \A k \in 1..(NCalls - 1) :
       /\ PageOf(k) # <<>>
       /\ CallSinces[k + 1].since = PageOf(k)[Len(PageOf(k))] + 1
       /\ CallSinces[k].since < CallSinces[k + 1].since
  /\ \A i, j \in 1..Len(acc_data) :
       i # j => (IF loop = "rde" THEN acc_data[i].ts # acc_data[j].ts ELSE acc_data[i] # acc_data[j])

C21_Witness ==
  /\ loop = "rde" /\ lpc = "done" /\ NCalls >= 2
  /\ Len(acc_data) > PageSize

\* the k-th page holds a row at or after the requested end
ReachesEnd(k) == \E j \in 1..Len(PageOf(k)) : PageOf(k)[j] >= window[2]

\* C22: stop at the requested end: a page that contains a row whose timestamp is
\* at or after to_date_ms is the page of the last exchange call of the fetch.
C22_StopAtRequestedEnd ==
  \A k \in 1..NCalls : ReachesEnd(k) => k = NCalls

\* a ccxt fetch that stopped on a full page reaching the end while the exchange
\* holds later candles
C22_Witness ==
  /\ loop = "ccxt" /\ lpc = "done" /\ NCalls >= 2
  /\ ReachesEnd(NCalls) /\ Len(PageOf(NCalls)) = PageSize
  /\ ExchangePage(remote, PageOf(NCalls)[PageSize] + 1) # <<>>

\* C23: short page means exhausted: a non-empty page with fewer rows than the
\* page size is the page of the last exchange call of the fetch, whether or not
\* a row has reached to_date_ms.
C23_ShortPageEndsFetch ==
  \A k \in 1..NCalls :
    (PageOf(k) # <<>> /\ Len(PageOf(k)) < PageSize) => k = NCalls

\* C24: every row a remote fetch returns carries boundary = unknown
\* (Is_Final_Row null): the fetch marks no row as a definite edge.
C24_ReturnedBoundaryUnknown ==
  lpc = "done" => \A i \in 1..Len(result) : result[i].fin = "nan"


\* the first and the last row of a series are marked final
FirstMarked(df) == df # <<>> /\ df[1].fin = "1"
LastMarked(df) == df # <<>> /\ df[Len(df)].fin = "1"

SavedTables ==
  {[i \in 1..Cardinality(S) |->
      [ts |-> convert_datetime_to_UTC_Ms(AscSeq(S)[i]), sym |-> Symbol, fin |-> "nan", src |-> "stored"]] :
     S \in SUBSET Slots("12h")}

\* get_DataFrame is called without an exchange; only its load of the saved rows is followed
TrimInit ==
  /\ timeframe \in Timeframes
  /\ from_date \in Dates
  /\ to_date \in {d \in Dates : from_date <= d}
  /\ hasOnline = FALSE /\ remote = {}
  /\ max_calls = 1
  /\ nowMs = convert_datetime_to_UTC_Ms(DateStart(MaxDay + 1))
  /\ symbol_list \in {<<Symbol>>, <<OtherSymbol, Symbol>>}
  /\ ohlcvTable \in SavedTables
  /\ gpc = "load" /\ saved_df = <<>> /\ sym_idx = 0 /\ return_df = <<>> /\ gfetches = <<>>
  /\ storedKind = "none" /\ fileRows = <<>> /\ tableExists = FALSE /\ dbRows = <<>>
  /\ pc = <<>> /\ all_data = <<>> /\ online_data = <<>>
  /\ pull_date = <<>> /\ fetches = <<>> /\ stored = <<>>
  /\ loop = "none" /\ lpc = "idle" /\ window = <<0, 0>>
  /\ call_count = 0 /\ cur_since = 0 /\ cur_data = <<>> /\ acc_data = <<>>
  /\ events = <<>> /\ result = <<>>
  /\ RetIdle

TrimNext == GdfLoad

SpecTrim == TrimInit /\ [][TrimNext]_vars

\* the rows the query of get_saved_data selects, before the trimming step
QueryResult ==
  SavedQuery(ohlcvTable, symbol_list, from_date_ms, end_date_ms, timeframe)

\* C26: spacing invariant of the Store query result: in the series the trimming
\* step returns, every two consecutive rows are exactly one timeframe unit apart.
C26_TrimmedSpacing ==
  gpc = "loop" =>
    \A i \in 2..Len(saved_df) :
      saved_df[i].ts - saved_df[i - 1].ts = convert_timeframe_to_ms(timeframe)


\* C27: the first row is always retained: for every non-empty query result the
\* trimming step keeps the first in-range row, and the trimmed series is empty
\* only if the query result is empty.
C27_FirstRowRetained ==
  (gpc = "loop" /\ QueryResult # <<>>) =>
    /\ saved_df # <<>>
    /\ saved_df[1] = QueryResult[1]


\* every row of a frame is a row of the database table
Inserted(df) == \A i \in 1..Len(df) : \E j \in 1..Len(dbRows) : dbRows[j] = df[i]

OnlineRows(df) == LET IsOnline(r) == r.src = "online" IN SelectSeq(df, IsOnline)

\* C28: persist before merge: main hands each gap fetch result to the store insert
\* before it merges it into the working series, so the frame about to be merged is
\* in the table, and every online row of the working series, and of the series
\* main returns, has been inserted.
C28_PersistBeforeMerge ==
  \A p \in Procs :
    /\ pc[p] \in {"head_merge", "tail_merge"} => Inserted(online_data[p])
    /\ Inserted(OnlineRows(all_data[p]))

C28_Witness ==
  \E p \in Procs :
    /\ pc[p] = "done"
    /\ OnlineRows(all_data[p]) # <<>>
    /\ Inserted(OnlineRows(all_data[p]))


(* ------------------- the same request, made twice ----------------------- *)
\* main is called a second time with the same arguments once the first call has
\* returned: invocation 2 takes no step before invocation 1 is done
RepeatNext == Next /\ (pc[1] # "done" => pc'[2] = pc[2])

SpecRepeat == ConcInit /\ [][RepeatNext]_vars

\* C29: cache convergence: after an invocation of main with a stored and an online
\* retriever has returned, the same request made again issues no online fetch and
\* returns the same series.
C29_CacheConvergence ==
  (pc[1] = "done" /\ hasOnline /\ storedKind # "none") =>
    /\ fetches[2] = <<>>
    /\ pc[2] = "done" => all_data[2] = all_data[1]

=============================================================================
